---- MODULE Spec2Model ----
(***************************************************************************)
(* State-machine model of the WeatherApp class of script.js: the four      *)
(* display panels, the query field, the debounced suggestion dropdown, the *)
(* keyboard navigation over it, and the weather requests in flight.        *)
(*                                                                         *)
(* Text is modelled as a sequence of one-character strings, so that trim,  *)
(* the allow-list pattern and URL encoding are computed character by       *)
(* character.  Messages shown to the user are TLA+ strings.                *)
(***************************************************************************)
EXTENDS Integers, Sequences, FiniteSets, TLC

(***************************************************************************)
(* Bounds of the model                                                     *)
(***************************************************************************)
\* weather requests that may be in flight at once
MaxWxInFlight == 1
\* suggestion requests that may be in flight at once
MaxSugInFlight == 1
\* weather requests in flight at once where their races are studied
MaxWxRace == 2
\* granularity of the clock, in milliseconds
TickMs == 150
\* input events counted in one burst (the count saturates here)
MaxBurst == 2

(***************************************************************************)
(* Program constants                                                       *)
(***************************************************************************)
\* setTimeout(..., 300) in handleInputChange
DebounceDelay == 300
\* trimmed.length <= 100 in utils.isValidCityName
MaxCityLen == 100
\* handleInputChange: query.length < 2 short-circuits
MinQueryLen == 2

(***************************************************************************)
(* Characters and text                                                     *)
(***************************************************************************)
Letters == {"a", "b", "c", "d", "z"}
Digits == {"0", "1", "2", "3", "4", "5", "6", "7", "8", "9"}
\* a letter outside a-zA-Z, as geocoding names may contain (u with umlaut)
NonAscii == "U+00FC"
Whitespace == {" "}

Min(a, b) == IF a <= b THEN a ELSE b
Max(a, b) == IF a >= b THEN a ELSE b

RECURSIVE TrimLeft(_)
TrimLeft(s) ==
    IF Len(s) > 0 /\ Head(s) \in Whitespace THEN TrimLeft(Tail(s)) ELSE s

RECURSIVE TrimRight(_)
TrimRight(s) ==
    IF Len(s) > 0 /\ s[Len(s)] \in Whitespace
    THEN TrimRight(SubSeq(s, 1, Len(s) - 1))
    ELSE s

\* String.prototype.trim
Trim(s) == TrimRight(TrimLeft(s))

\* the character class [a-zA-Z\s\-,.']
AllowedChars == Letters \cup Whitespace \cup {"-", ",", ".", "'"}

\* the pattern with the digits added to its character class
MatchesPatternWithDigits(s) ==
    Len(s) > 0 /\ \A i \in 1..Len(s) : s[i] \in AllowedChars \cup Digits

\* /^[a-zA-Z\s\-,.']+$/.test(s)
MatchesPattern(s) == Len(s) > 0 /\ \A i \in 1..Len(s) : s[i] \in AllowedChars

\* the validity computed by validateInput from the field's value
IsValidInput(value) ==
    LET input == Trim(value) IN Len(input) > 0 /\ MatchesPattern(input)

\* utils.isValidCityName
isValidCityName(cityName) ==
    LET trimmed == Trim(cityName)
    IN  Len(trimmed) > 0 /\ Len(trimmed) <= MaxCityLen /\ MatchesPattern(trimmed)

\* encodeURIComponent on one character (UTF-8 percent-encoding)
EncodeChar(c) ==
    IF c \in Letters \cup Digits \cup {"-", ".", "'"} THEN <<c>>
    ELSE IF c = " " THEN <<"%", "2", "0">>
    ELSE IF c = "," THEN <<"%", "2", "C">>
    ELSE IF c = NonAscii THEN <<"%", "C", "3", "%", "B", "C">>
    ELSE <<"%", "?", "?">>

RECURSIVE encodeURIComponent(_)
encodeURIComponent(s) ==
    IF Len(s) = 0 THEN <<>>
    ELSE EncodeChar(Head(s)) \o encodeURIComponent(Tail(s))

\* `${lat},${lon}` of fetchWeatherByCoords
CoordsPath(lat, lon) == lat \o <<",">> \o lon

(***************************************************************************)
(* getErrorMessage and the other messages the error panel can carry        *)
(***************************************************************************)
MsgEmptyCity == "Please enter a city name"
MsgInvalidCity ==
    "Please enter a valid city name (letters, spaces, and basic punctuation only)"
MsgApiKey == "API key is invalid. Please check your configuration."
MsgNotFound == "City not found. Please check the spelling and try again."
MsgTooMany == "Too many requests. Please wait a moment and try again."
MsgUnavailable ==
    "Weather service is temporarily unavailable. Please try again later."
MsgDefault ==
    "Unable to fetch weather data. Please check your internet connection and try again."

\* the switch without its `case 502:` label
getErrorMessageWithout502(status) ==
    CASE status = 401 -> MsgApiKey
      [] status = 404 -> MsgNotFound
      [] status = 429 -> MsgTooMany
      [] status \in {500, 503} -> MsgUnavailable
      [] OTHER -> MsgDefault

\* getErrorMessage(status)
getErrorMessage(status) ==
    CASE status = 401 -> MsgApiKey
      [] status = 404 -> MsgNotFound
      [] status = 429 -> MsgTooMany
      [] status \in {500, 502, 503} -> MsgUnavailable
      [] OTHER -> MsgDefault

\* response.ok
ResponseOk(status) == status >= 200 /\ status <= 299

(***************************************************************************)
(* Data the user and the two services can supply                           *)
(***************************************************************************)
NameAB == <<"a", "b">>
NameCD == <<"c", "d">>
\* a place name with a non-ASCII letter, as the geocoding service returns
NameZU == <<"z", NonAscii>>
LongName == [i \in 1..(MaxCityLen + 1) |-> "a"]

\* values the user can leave in the query field by typing
InputValues ==
    { <<>>, <<" ", "a">>, NameAB, <<" ", "c", "d", " ">>, <<"a", "1">>, LongName }

\* data.results of a geocoding response: the name of each result, in order
SuggestionLists == { <<>>, <<NameAB, NameZU>> }

\* positions getCurrentLocation can resolve to, as they print in a template
Coords == { [lat |-> <<"1">>, lon |-> <<"2">>] }

\* current_condition[0] of a weather response
Current1 ==
    [temp_C |-> <<"2", "0">>, temp_F |-> <<"6", "8">>,
     FeelsLikeC |-> <<"1", "8">>, FeelsLikeF |-> <<"6", "4">>,
     windspeedKmph |-> <<"1", "0">>, windspeedMiles |-> <<"6">>]
Current2 ==
    [temp_C |-> <<"-", "5">>, temp_F |-> <<"2", "3">>,
     FeelsLikeC |-> <<"-", "9">>, FeelsLikeF |-> <<"1", "6">>,
     windspeedKmph |-> <<"3", "0">>, windspeedMiles |-> <<"1", "9">>]

\* A weather payload: hasNearest says nearest_area[0] exists (areaName is its
\* areaName[0].value), hasCurrent says current_condition[0] exists.
GoodPayloads ==
    { [hasNearest |-> TRUE, areaName |-> NameAB, hasCurrent |-> TRUE,
       current |-> Current1],
      [hasNearest |-> TRUE, areaName |-> NameZU, hasCurrent |-> TRUE,
       current |-> Current2] }

\* payloads of a success response that lack one of the two first elements
MalformedPayloads ==
    { [hasNearest |-> TRUE, areaName |-> NameAB, hasCurrent |-> FALSE,
       current |-> Current1],
      [hasNearest |-> FALSE, areaName |-> <<>>, hasCurrent |-> TRUE,
       current |-> Current1] }

Payloads == GoodPayloads \cup MalformedPayloads

\* the body of a response that is not read
NoBody ==
    [hasNearest |-> FALSE, areaName |-> <<>>, hasCurrent |-> FALSE,
     current |-> Current1]

\* HTTP statuses the weather endpoint answers with (418 stands for any status
\* getErrorMessage does not list)
Statuses == {200, 401, 404, 429, 500, 502, 503, 418}

\* error.message of the TypeError fetch() rejects with; the text is the
\* browser's (Chromium, Firefox)
TransportMessages ==
    { "Failed to fetch", "NetworkError when attempting to fetch resource." }

\* error.message of the TypeError a property read of undefined throws; the
\* text is the engine's
TypeErrorMessages == { "Cannot read properties of undefined" }

\* what a weather request can complete with
WeatherOutcomes ==
    [type : {"http"}, status : Statuses \ {200}, body : {NoBody}, message : {""}]
    \cup [type : {"http"}, status : {200}, body : Payloads, message : {""}]
    \cup [type : {"reject"}, status : {0}, body : {NoBody},
          message : TransportMessages]

\* what a suggestion request can complete with
SuggestionOutcomes ==
    [type : {"http"}, status : {200}, results : SuggestionLists]
    \cup [type : {"http"}, status : {500}, results : {<<>>}]
    \cup [type : {"reject"}, status : {0}, results : {<<>>}]

(***************************************************************************)
(* State                                                                   *)
(***************************************************************************)
Panels == {"welcome", "loading", "error", "weather"}

VARIABLES
    cityInput,          \* this.cityInput.value
    searchBtnDisabled,  \* this.searchBtn.disabled
    currentUnit,        \* this.currentUnit
    currentCity,        \* this.currentCity
    weatherData,        \* this.weatherData: <<>> for null, or <<payload>>
    hidden,             \* per panel: its classList contains 'hidden'
    errorMessage,       \* this.errorMessage.textContent
    display,            \* text of the weather display elements
    dropHidden,         \* suggestionsDropdown carries 'hidden'
    dropItems,          \* data-city of the .suggestion-item elements, in order
    activeItems,        \* indexes (from 0) of the .suggestion-item elements
                        \* that carry class 'active'
    timers,             \* pending setTimeout callbacks: id, query, time left
    searchTimeout,      \* this.searchTimeout: 0 for null, or a timer id
    sugInFlight,        \* geocoding requests awaiting a response, oldest first
    wxInFlight,         \* weather requests awaiting a response, oldest first
    \* history, read by the properties only
    lastEvent,          \* the event handled last: "input" (an input event that
                        \* scheduled a timer), "shortInput" (one with a query
                        \* too short), "shortCancel" (the same, with the
                        \* previous timer still pending), "sugFail" (a
                        \* geocoding request failed) or "other"
    selectedSinceInput, \* a suggestion was selected after the last input event
    burst,              \* the current burst of input events: n, how many (up
                        \* to MaxBurst); query, the last one's trimmed query;
                        \* fetches, the fetchSuggestions calls it led to
    lastTarget,         \* request of the latest city or coordinate search
    shownPath           \* path of the request the displayed snapshot answers

wxSide ==
    <<currentUnit, currentCity, weatherData, hidden, errorMessage, display,
      wxInFlight, lastTarget, shownPath>>

sugSide ==
    <<dropHidden, dropItems, activeItems, timers, searchTimeout, sugInFlight,
      burst>>

vars ==
    <<cityInput, searchBtnDisabled, lastEvent, selectedSinceInput, wxSide, sugSide>>

\* handleKeyNavigation, lines 274-275: the index of the first item that carries
\* class 'active', or -1
activeIndex ==
    IF activeItems = {} THEN -1
    ELSE CHOOSE i \in activeItems : \A j \in activeItems : i <= j

(***************************************************************************)
(* Number parsing and printing                                             *)
(***************************************************************************)
DigitValue(c) ==
    CASE c = "0" -> 0 [] c = "1" -> 1 [] c = "2" -> 2 [] c = "3" -> 3
      [] c = "4" -> 4 [] c = "5" -> 5 [] c = "6" -> 6 [] c = "7" -> 7
      [] c = "8" -> 8 [] c = "9" -> 9

DigitChar(n) ==
    CASE n = 0 -> "0" [] n = 1 -> "1" [] n = 2 -> "2" [] n = 3 -> "3"
      [] n = 4 -> "4" [] n = 5 -> "5" [] n = 6 -> "6" [] n = 7 -> "7"
      [] n = 8 -> "8" [] n = 9 -> "9"

RECURSIVE ParseDigits(_, _)
ParseDigits(s, acc) ==
    IF Len(s) > 0 /\ Head(s) \in Digits
    THEN ParseDigits(Tail(s), 10 * acc + DigitValue(Head(s)))
    ELSE acc

\* parseInt on a text that starts with an optional sign and a digit
parseInt(s) ==
    IF Len(s) > 0 /\ Head(s) = "-" THEN 0 - ParseDigits(Tail(s), 0)
    ELSE ParseDigits(s, 0)

RECURSIVE NatToText(_)
NatToText(n) ==
    IF n < 10 THEN <<DigitChar(n)>>
    ELSE NatToText(n \div 10) \o <<DigitChar(n % 10)>>

\* the text a number prints as (textContent = n, `${n}`)
NumberToText(n) == IF n < 0 THEN <<"-">> \o NatToText(0 - n) ELSE NatToText(n)

\* the degree sign is written "deg"
DegC == <<"deg", "C">>
DegF == <<"deg", "F">>

(***************************************************************************)
(* The panels                                                              *)
(***************************************************************************)
\* hideAllSections without its line for the welcome panel
hideAllSectionsButWelcome(h) == [p \in Panels |-> IF p = "welcome" THEN h[p] ELSE TRUE]

hideAllSections(h) == [p \in Panels |-> TRUE]

showWelcomeState(h) == [hideAllSections(h) EXCEPT !["welcome"] = FALSE]

\* showLoadingState without the line that reveals the loading panel
showLoadingStateHidesOnly(h) == hideAllSections(h)

showLoadingState(h) == [hideAllSections(h) EXCEPT !["loading"] = FALSE]

showWeatherState(h) == [hideAllSections(h) EXCEPT !["weather"] = FALSE]

\* showError without its hideAllSections() call
showErrorKeepingPanels(h) == [h EXCEPT !["error"] = FALSE]

\* the panel part of showError; the message is set by the caller's errorMessage'
showError(h) == [hideAllSections(h) EXCEPT !["error"] = FALSE]

Visible(p) == ~hidden[p]
OnlyVisible(p) == \A q \in Panels : Visible(q) <=> q = p

(***************************************************************************)
(* Rendering                                                               *)
(***************************************************************************)
\* formatWindSpeed without its test of the unit
formatWindSpeedKmphOnly(unit, speedKmph, speedMiles) == speedKmph \o <<" ", "km/h">>

formatWindSpeed(unit, speedKmph, speedMiles) ==
    IF unit = "metric" THEN speedKmph \o <<" ", "km/h">>
    ELSE speedMiles \o <<" ", "mph">>

\* displayWeatherData throws a TypeError before showWeatherState when the
\* payload lacks nearest_area[0] or current_condition[0]
DisplayThrows(data) == ~data.hasNearest \/ ~data.hasCurrent

\* the display elements after displayWeatherData(data) ran, to its end or to
\* the statement that throws
displayWeatherData(d, data, unit) ==
    IF ~data.hasNearest THEN d
    ELSE IF ~data.hasCurrent THEN [d EXCEPT !.cityName = data.areaName]
    ELSE
        LET current == data.current
            tempC == parseInt(current.temp_C)
            tempF == parseInt(current.temp_F)
            displayTemp == IF unit = "metric" THEN tempC ELSE tempF
            feelsLikeC == parseInt(current.FeelsLikeC)
            feelsLikeF == parseInt(current.FeelsLikeF)
            displayFeelsLike == IF unit = "metric" THEN feelsLikeC ELSE feelsLikeF
        IN  [cityName |-> data.areaName,
             temperature |-> NumberToText(displayTemp),
             temperatureUnit |-> IF unit = "metric" THEN DegC ELSE DegF,
             feelsLike |-> NumberToText(displayFeelsLike)
                           \o (IF unit = "metric" THEN DegC ELSE DegF),
             windSpeed |-> formatWindSpeed(unit, current.windspeedKmph,
                                           current.windspeedMiles)]

BlankDisplay ==
    [cityName |-> <<>>, temperature |-> <<>>, temperatureUnit |-> <<>>,
     feelsLike |-> <<>>, windSpeed |-> <<>>]

(***************************************************************************)
(* Requests                                                                *)
(***************************************************************************)
\* the weather request fetchWeatherData(city) sends: BASE_URL + path
CityRequest(city) == [kind |-> "city", path |-> encodeURIComponent(city)]

\* the weather request fetchWeatherByCoords(lat, lon) sends
CoordsRequest(lat, lon) == [kind |-> "coords", path |-> CoordsPath(lat, lon)]

\* the geocoding request fetchSuggestions(query) sends: ?name=...&count=5
SuggestionRequest(query) == [query |-> query, name |-> encodeURIComponent(query)]

NoRequest == [kind |-> "none", path |-> <<>>]

NoBurst == [n |-> 0, query |-> <<>>, fetches |-> 0]

RemoveAt(seq, i) == SubSeq(seq, 1, i - 1) \o SubSeq(seq, i + 1, Len(seq))

(***************************************************************************)
(* Timers                                                                  *)
(***************************************************************************)
\* clearTimeout(id): a no-op when no pending timer has the id
clearTimeout(ts, id) == {t \in ts : t.id # id}

\* the id setTimeout returns: one no pending timer carries
NewTimerId(ts) == CHOOSE i \in 1..(Cardinality(ts) + 1) : \A t \in ts : t.id # i

\* handleInputChange without its clearTimeout call
ClearNothing(ts, handle) == ts

\* handleInputChange, lines 151-153: the pending timers after the previous
\* timeout was cleared
ClearPrevious(ts, handle) == IF handle # 0 THEN clearTimeout(ts, handle) ELSE ts

\* the short-circuit testing for an empty query only
TooShortOnlyEmpty(query) == Len(query) < 1

\* handleInputChange, line 155: the query is too short for suggestions
TooShort(query) == Len(query) < MinQueryLen

\* the timer the previous input event scheduled has not run yet
PreviousPending == \E t \in timers : t.id = searchTimeout

(***************************************************************************)
(* The dropdown                                                            *)
(***************************************************************************)
\* hideSuggestions(): the dropdown's hidden flag after it
hideSuggestions(wasHidden) == TRUE

\* showSuggestions(): the dropdown's hidden flag after it
showSuggestions(wasHidden) == FALSE

\* displaySuggestions keeping the items the dropdown already holds
displaySuggestionsKeepingItems(suggestions, wasHidden, items, active) ==
    IF Len(suggestions) = 0 THEN <<hideSuggestions(wasHidden), items, active>>
    ELSE IF Len(items) > 0 THEN <<showSuggestions(wasHidden), items, active>>
    ELSE <<showSuggestions(wasHidden), suggestions, {}>>

\* displaySuggestions(suggestions): <<hidden flag, items, active items>> after it
displaySuggestions(suggestions, wasHidden, items, active) ==
    IF Len(suggestions) = 0 THEN <<hideSuggestions(wasHidden), items, active>>
    ELSE <<showSuggestions(wasHidden), suggestions, {}>>

\* a catch block that reports the failure as the weather fetches do
SuggestionCatchShowsError(h, wasHidden) == <<showError(h), hideSuggestions(wasHidden)>>

\* the catch block of fetchSuggestions: <<panels, dropdown hidden flag>> after it
SuggestionCatch(h, wasHidden) == <<h, hideSuggestions(wasHidden)>>

\* highlightSuggestion adding the class without removing it from the others
highlightSuggestionAddOnly(was, n, index) ==
    was \cup {i \in 0..(n - 1) : i = index}

\* highlightSuggestion(suggestions, index) over n items of which those of `was`
\* carry class 'active': the items that carry it afterwards
highlightSuggestion(was, n, index) == {i \in 0..(n - 1) : i = index}

(***************************************************************************)
(* Parts of handlers shared by several events.  Each leaves the variables  *)
(* it does not name to the action that uses it.                            *)
(***************************************************************************)
\* fetchWeatherData(city) up to its first await: loading panel, request sent
fetchWeatherData(city) ==
    /\ hidden' = showLoadingState(hidden)
    /\ wxInFlight' = Append(wxInFlight, CityRequest(city))
    /\ UNCHANGED errorMessage

\* showError(message)
ShowErrorStep(message) ==
    /\ hidden' = showError(hidden)
    /\ errorMessage' = message

\* handleSearch() with `value` in the query field
handleSearch(value) ==
    LET city == Trim(value) IN
    IF Len(city) = 0
    THEN /\ ShowErrorStep(MsgEmptyCity)
         /\ UNCHANGED <<currentCity, wxInFlight, searchBtnDisabled, lastTarget>>
    ELSE IF ~IsValidInput(value)
    THEN /\ searchBtnDisabled' = TRUE
         /\ ShowErrorStep(MsgInvalidCity)
         /\ UNCHANGED <<currentCity, wxInFlight, lastTarget>>
    ELSE /\ searchBtnDisabled' = FALSE
         /\ currentCity' = city
         /\ fetchWeatherData(city)
         /\ lastTarget' = CityRequest(city)

\* selectSuggestion(item), item.dataset.city = name
selectSuggestion(name) ==
    /\ cityInput' = name
    /\ dropHidden' = hideSuggestions(dropHidden)
    /\ handleSearch(name)
    /\ selectedSinceInput' = TRUE
    /\ lastEvent' = "other"
    /\ UNCHANGED <<currentUnit, weatherData, display, shownPath, dropItems,
                   activeItems, timers, searchTimeout, sugInFlight, burst>>

\* handleSearch() from the search button or from Enter without a highlight
SearchStep ==
    /\ handleSearch(cityInput)
    /\ lastEvent' = "other"
    /\ UNCHANGED <<cityInput, selectedSinceInput, currentUnit, weatherData, display,
                   shownPath, sugSide>>

(***************************************************************************)
(* Initial state: the constructor ran on the page as loaded                *)
(***************************************************************************)
Init ==
    /\ cityInput = <<>>
    /\ searchBtnDisabled \in BOOLEAN
    /\ currentUnit = "metric"
    /\ currentCity = <<>>
    /\ weatherData = <<>>
    /\ \E h \in [Panels -> BOOLEAN] : hidden = showWelcomeState(h)
    /\ errorMessage = ""
    /\ display = BlankDisplay
    /\ dropHidden = TRUE
    /\ dropItems = <<>>
    /\ activeItems = {}
    /\ timers = {}
    /\ searchTimeout = 0
    /\ sugInFlight = <<>>
    /\ wxInFlight = <<>>
    /\ lastEvent = "init"
    /\ selectedSinceInput = FALSE
    /\ burst = NoBurst
    /\ lastTarget = NoRequest
    /\ shownPath = <<>>

(***************************************************************************)
(* Events                                                                  *)
(***************************************************************************)
\* 'input' on the query field: validateInput(), then handleInputChange()
InputEvent(v) ==
    LET query == Trim(v)
        cleared == ClearPrevious(timers, searchTimeout)
        id == NewTimerId(cleared)
    IN  /\ cityInput' = v
        /\ searchBtnDisabled' = ~IsValidInput(v)
        /\ IF TooShort(query)
           THEN /\ timers' = cleared
                /\ dropHidden' = hideSuggestions(dropHidden)
                /\ burst' = NoBurst
                /\ lastEvent' = IF PreviousPending THEN "shortCancel"
                                 ELSE "shortInput"
                /\ UNCHANGED searchTimeout
           ELSE /\ timers' = cleared \cup
                      {[id |-> id, query |-> query, remaining |-> DebounceDelay]}
                /\ searchTimeout' = id
                /\ burst' = [n |-> IF PreviousPending
                                    THEN Min(burst.n + 1, MaxBurst) ELSE 1,
                              query |-> query,
                              fetches |-> IF PreviousPending THEN burst.fetches
                                          ELSE 0]
                /\ lastEvent' = "input"
                /\ UNCHANGED dropHidden
        /\ selectedSinceInput' = FALSE
        /\ UNCHANGED <<wxSide, dropItems, activeItems, sugInFlight>>

\* time passes while no pending timer is due
Tick ==
    /\ timers # {}
    /\ \A t \in timers : t.remaining > 0
    /\ timers' = {[t EXCEPT !.remaining = Max(0, t.remaining - TickMs)] : t \in timers}
    /\ lastEvent' = "other"
    /\ UNCHANGED <<cityInput, searchBtnDisabled, selectedSinceInput, wxSide,
                   dropHidden, dropItems, activeItems, searchTimeout, sugInFlight,
                   burst>>

\* a due timer runs its callback: fetchSuggestions(query) up to its await
\* (showSuggestionsLoading, then the request)
TimerFire(t) ==
    /\ t \in timers
    /\ t.remaining = 0
    /\ timers' = timers \ {t}
    /\ dropItems' = <<>>
    /\ activeItems' = {}
    /\ dropHidden' = showSuggestions(dropHidden)
    /\ sugInFlight' = Append(sugInFlight, SuggestionRequest(t.query))
    /\ burst' = [burst EXCEPT !.fetches = Min(burst.fetches + 1, 2)]
    /\ lastEvent' = "other"
    /\ UNCHANGED <<cityInput, searchBtnDisabled, selectedSinceInput, wxSide,
                   searchTimeout>>

\* a geocoding request completes: the rest of fetchSuggestions
SuggestionDone(i, o) ==
    /\ i \in 1..Len(sugInFlight)
    /\ sugInFlight' = RemoveAt(sugInFlight, i)
    /\ IF o.type = "http" /\ ResponseOk(o.status)
       THEN LET shown == displaySuggestions(o.results, dropHidden, dropItems,
                                            activeItems)
            IN  /\ dropHidden' = shown[1]
                /\ dropItems' = shown[2]
                /\ activeItems' = shown[3]
                /\ lastEvent' = "other"
                /\ UNCHANGED <<hidden>>
       ELSE LET caught == SuggestionCatch(hidden, dropHidden)
            IN  /\ hidden' = caught[1]
                /\ dropHidden' = caught[2]
                /\ lastEvent' = "sugFail"
                /\ UNCHANGED <<dropItems, activeItems>>
    /\ UNCHANGED <<cityInput, searchBtnDisabled, selectedSinceInput, currentUnit,
                   currentCity, weatherData, errorMessage, display, wxInFlight,
                   lastTarget, shownPath, timers, searchTimeout, burst>>

\* 'keydown' ArrowDown / ArrowUp on the query field
ArrowKey(key) ==
    /\ IF Len(dropItems) = 0
       THEN UNCHANGED activeItems
       ELSE IF key = "ArrowDown"
       THEN activeItems' =
                highlightSuggestion(activeItems, Len(dropItems),
                                    Min(activeIndex + 1, Len(dropItems) - 1))
       ELSE activeItems' =
                highlightSuggestion(activeItems, Len(dropItems),
                                    Max(activeIndex - 1, 0))
    /\ lastEvent' = "other"
    /\ UNCHANGED <<cityInput, searchBtnDisabled, selectedSinceInput, wxSide,
                   dropHidden, dropItems, timers, searchTimeout, sugInFlight, burst>>

\* 'keydown' Escape on the query field
EscapeKey ==
    /\ IF Len(dropItems) = 0
       THEN UNCHANGED dropHidden
       ELSE dropHidden' = hideSuggestions(dropHidden)
    /\ lastEvent' = "other"
    /\ UNCHANGED <<cityInput, searchBtnDisabled, selectedSinceInput, wxSide,
                   dropItems, activeItems, timers, searchTimeout, sugInFlight, burst>>

\* Enter on the query field: 'keydown' selects the highlighted item and cancels
\* the 'keypress'; with no highlighted item the 'keypress' runs handleSearch()
EnterKey ==
    IF Len(dropItems) > 0 /\ activeIndex >= 0
    THEN selectSuggestion(dropItems[activeIndex + 1])
    ELSE SearchStep

\* 'click' on a suggestion item of the open dropdown
ClickSuggestion(k) ==
    /\ ~dropHidden
    /\ k \in 1..Len(dropItems)
    /\ selectSuggestion(dropItems[k])

\* 'click' on the search button
ClickSearch ==
    /\ ~searchBtnDisabled
    /\ SearchStep

\* 'click' on the document outside .search-input-wrapper
OutsideClick ==
    /\ dropHidden' = hideSuggestions(dropHidden)
    /\ lastEvent' = "other"
    /\ UNCHANGED <<cityInput, searchBtnDisabled, selectedSinceInput, wxSide,
                   dropItems, activeItems, timers, searchTimeout, sugInFlight, burst>>

\* 'click' on the retry button of the error panel: handleRetry()
handleRetry ==
    /\ Visible("error")
    /\ IF Len(currentCity) > 0
       THEN fetchWeatherData(currentCity)
       ELSE UNCHANGED <<hidden, wxInFlight, errorMessage>>
    /\ lastEvent' = "other"
    /\ UNCHANGED <<cityInput, searchBtnDisabled, selectedSinceInput, currentUnit,
                   currentCity, weatherData, display, lastTarget, shownPath, sugSide>>

\* toggleTemperatureUnit without its test of this.currentCity
toggleTemperatureUnitAlwaysFetches ==
    /\ currentUnit' = IF currentUnit = "metric" THEN "imperial" ELSE "metric"
    /\ fetchWeatherData(currentCity)
    /\ lastEvent' = "other"
    /\ UNCHANGED <<cityInput, searchBtnDisabled, selectedSinceInput, currentCity,
                   weatherData, display, lastTarget, shownPath, sugSide>>

\* 'click' on the unit toggle: toggleTemperatureUnit()
toggleTemperatureUnit ==
    /\ currentUnit' = IF currentUnit = "metric" THEN "imperial" ELSE "metric"
    /\ IF Len(currentCity) > 0
       THEN fetchWeatherData(currentCity)
       ELSE UNCHANGED <<hidden, wxInFlight, errorMessage>>
    /\ lastEvent' = "other"
    /\ UNCHANGED <<cityInput, searchBtnDisabled, selectedSinceInput, currentCity,
                   weatherData, display, lastTarget, shownPath, sugSide>>

\* fetchWeatherByCoords(lat, lon) up to its await
fetchWeatherByCoords(c) ==
    /\ hidden' = showLoadingState(hidden)
    /\ wxInFlight' = Append(wxInFlight, CoordsRequest(c.lat, c.lon))
    /\ lastTarget' = CoordsRequest(c.lat, c.lon)
    /\ lastEvent' = "other"
    /\ UNCHANGED <<cityInput, searchBtnDisabled, selectedSinceInput, currentUnit,
                   currentCity, weatherData, errorMessage, display, shownPath,
                   sugSide>>

\* error.message the catch block of a weather fetch passes to showError, for a
\* rejected fetch or a non-success status
FailureMessage(o) ==
    IF o.type = "reject" THEN o.message ELSE getErrorMessage(o.status)

\* a weather request completes: the rest of fetchWeatherData or of
\* fetchWeatherByCoords, by the kind of the request; typeErr is the message of
\* the TypeError a malformed payload raises
WeatherDone(i, o, typeErr) ==
    /\ i \in 1..Len(wxInFlight)
    /\ wxInFlight' = RemoveAt(wxInFlight, i)
    /\ IF o.type = "reject" \/ ~ResponseOk(o.status)
       THEN /\ ShowErrorStep(FailureMessage(o))
            /\ lastEvent' = "other"
            /\ UNCHANGED <<weatherData, currentCity, cityInput, display, shownPath>>
       ELSE LET data == o.body
                coords == wxInFlight[i].kind = "coords"
            IN  /\ weatherData' = <<data>>
                /\ IF coords /\ ~data.hasNearest
                   THEN /\ ShowErrorStep(typeErr)
                        /\ lastEvent' = "other"
                        /\ UNCHANGED <<currentCity, cityInput, display, shownPath>>
                   ELSE /\ IF coords
                           THEN /\ currentCity' = data.areaName
                                /\ cityInput' = data.areaName
                           ELSE UNCHANGED <<currentCity, cityInput>>
                        /\ display' = displayWeatherData(display, data, currentUnit)
                        /\ IF DisplayThrows(data)
                           THEN /\ ShowErrorStep(typeErr)
                                /\ lastEvent' = "other"
                                /\ UNCHANGED shownPath
                           ELSE /\ hidden' = showWeatherState(hidden)
                                /\ shownPath' =
                                       IF coords
                                       THEN encodeURIComponent(data.areaName)
                                       ELSE wxInFlight[i].path
                                /\ lastEvent' = "other"
                                /\ UNCHANGED errorMessage
    /\ UNCHANGED <<searchBtnDisabled, selectedSinceInput, currentUnit, lastTarget,
                   sugSide>>

(***************************************************************************)
(* Specifications                                                          *)
(***************************************************************************)
HttpOk(body) == [type |-> "http", status |-> 200, body |-> body, message |-> ""]
HttpStatus(status) ==
    [type |-> "http", status |-> status, body |-> NoBody, message |-> ""]
Rejected(message) ==
    [type |-> "reject", status |-> 0, body |-> NoBody, message |-> message]

Payload1 ==
    [hasNearest |-> TRUE, areaName |-> NameAB, hasCurrent |-> TRUE,
     current |-> Current1]
NoCurrentPayload ==
    [hasNearest |-> TRUE, areaName |-> NameAB, hasCurrent |-> FALSE,
     current |-> Current1]

\* at most sugCap geocoding and wxCap weather requests are in flight
WithinCaps(sugCap, wxCap) ==
    /\ Len(sugInFlight') <= sugCap
    /\ Len(wxInFlight') <= wxCap

\* the next-state relation when the user types values of `inputs`, geocoding
\* requests complete with `sugOutcomes` and weather requests with `wxOutcomes`
NextOver(inputs, sugOutcomes, wxOutcomes, sugCap, wxCap) ==
    \/ \E v \in inputs : InputEvent(v)
    \/ Tick
    \/ \E t \in timers : TimerFire(t) /\ WithinCaps(sugCap, wxCap)
    \/ \E i \in 1..Len(sugInFlight), o \in sugOutcomes : SuggestionDone(i, o)
    \/ \E key \in {"ArrowDown", "ArrowUp"} : ArrowKey(key)
    \/ EscapeKey
    \/ EnterKey /\ WithinCaps(sugCap, wxCap)
    \/ \E k \in 1..Len(dropItems) : ClickSuggestion(k) /\ WithinCaps(sugCap, wxCap)
    \/ ClickSearch /\ WithinCaps(sugCap, wxCap)
    \/ OutsideClick
    \/ handleRetry /\ WithinCaps(sugCap, wxCap)
    \/ toggleTemperatureUnit /\ WithinCaps(sugCap, wxCap)
    \/ \E c \in Coords : fetchWeatherByCoords(c) /\ WithinCaps(sugCap, wxCap)
    \/ \E i \in 1..Len(wxInFlight), o \in wxOutcomes, m \in TypeErrorMessages :
           WeatherDone(i, o, m)

\* every event, with few values
Next ==
    NextOver({<<" ", "1">>, NameAB},
             SuggestionOutcomes,
             {HttpOk(Payload1), HttpStatus(404)},
             MaxSugInFlight, MaxWxInFlight)

Spec == Init /\ [][Next]_vars

\* The weather side alone: the queries typed are too short for suggestions, so
\* no timer is ever scheduled and the dropdown stays closed.
NextWeather(inputs, wxOutcomes, wxCap) ==
    \/ \E v \in inputs : InputEvent(v)
    \/ EnterKey /\ WithinCaps(0, wxCap)
    \/ ClickSearch /\ WithinCaps(0, wxCap)
    \/ handleRetry /\ WithinCaps(0, wxCap)
    \/ toggleTemperatureUnit /\ WithinCaps(0, wxCap)
    \/ \E c \in Coords : fetchWeatherByCoords(c) /\ WithinCaps(0, wxCap)
    \/ \E i \in 1..Len(wxInFlight), o \in wxOutcomes, m \in TypeErrorMessages :
           WeatherDone(i, o, m)

\* several weather requests in flight, for two cities and a position
NextRace ==
    NextWeather({<<>>, <<"a">>, <<" ", "b">>, <<"1">>},
                {HttpOk(Payload1), HttpStatus(404)} \cup {HttpOk(b) : b \in GoodPayloads},
                MaxWxRace)

SpecRace == Init /\ [][NextRace]_vars

\* every way a weather request can complete, one request at a time
NextErr == NextWeather({<<"a">>}, WeatherOutcomes, MaxWxInFlight)

SpecErr == Init /\ [][NextErr]_vars

\* The suggestion side alone, with the scheduling the event loop guarantees:
\* time passes, a due timer runs its callback, a request completes.
NextDebounce ==
    \/ \E v \in {<<>>, <<" ", "1">>, NameAB, <<"c", "1">>} : InputEvent(v)
    \/ Tick
    \/ \E t \in timers : TimerFire(t) /\ WithinCaps(MaxSugInFlight, 0)
    \/ \E i \in 1..Len(sugInFlight), o \in SuggestionOutcomes : SuggestionDone(i, o)
    \/ \E key \in {"ArrowDown", "ArrowUp"} : ArrowKey(key)
    \/ EscapeKey
    \/ OutsideClick

SpecDebounce ==
    /\ Init
    /\ [][NextDebounce]_vars
    /\ WF_vars(Tick)
    /\ WF_vars(\E t \in timers : TimerFire(t) /\ WithinCaps(MaxSugInFlight, 0))
    /\ WF_vars(\E i \in 1..Len(sugInFlight), o \in SuggestionOutcomes :
                   SuggestionDone(i, o))

\* the weather side alone, with the over-long name among the queries
NextLong ==
    NextWeather({<<>>, <<"a">>, <<"1">>, LongName},
                {HttpOk(Payload1), HttpStatus(404)}, MaxWxInFlight)

SpecLong == Init /\ [][NextLong]_vars

(***************************************************************************)
(* Properties                                                              *)
(***************************************************************************)
VisiblePanels == {p \in Panels : Visible(p)}

\* a step that selects a suggestion item, by click or by Enter
SelectStep(name) ==
    /\ \E k \in 1..Len(dropItems) : dropItems[k] = name
    /\ selectSuggestion(name)

\* a step that completes a geocoding request with a failure
SuggestionFailed ==
    \E i \in 1..Len(sugInFlight), o \in SuggestionOutcomes :
        /\ ~(o.type = "http" /\ ResponseOk(o.status))
        /\ SuggestionDone(i, o)

\* C1: in every reachable state exactly one of the four panels is visible.
C1_ExactlyOnePanel == Cardinality(VisiblePanels) = 1

\* C1, its case: the weather panel alone is shown after the error panel was,
\* while the dropdown is open.
C1_Witness ==
    /\ OnlyVisible("weather")
    /\ errorMessage = MsgNotFound
    /\ ~dropHidden

\* C2: from the selection of a suggestion item until the next input event the
\* dropdown is never visible.
C2_DropdownStaysClosed == selectedSinceInput => dropHidden

\* C5: no pending timer and no geocoding request carries a query of trimmed
\* length below 2, and an input event with such a query leaves no timer
\* pending, hides the dropdown and sends nothing.
C5_NoShortQueryFetch ==
    /\ [](/\ \A t \in timers : Len(Trim(t.query)) >= MinQueryLen
          /\ \A k \in 1..Len(sugInFlight) :
                 Len(Trim(sugInFlight[k].query)) >= MinQueryLen)
    /\ [][(InputEvent(cityInput') /\ Len(Trim(cityInput')) < MinQueryLen)
              => (timers' = {} /\ dropHidden' /\ sugInFlight' = sugInFlight)]_vars

\* C5, its case: a short query arrived while the previous timer was pending
\* and the dropdown showed suggestions.
C5_Witness ==
    /\ lastEvent = "shortCancel"
    /\ Len(Trim(cityInput)) < MinQueryLen
    /\ timers = {}
    /\ dropHidden
    /\ Len(dropItems) > 0

\* C9: a failed geocoding request hides the dropdown and leaves the panels and
\* the error message as they were; no completion of a geocoding request makes
\* the error panel visible.
C9_SilentSuggestionFailure ==
    /\ [][SuggestionFailed =>
              (dropHidden' /\ hidden' = hidden /\ errorMessage' = errorMessage)]_vars
    /\ [][(\E i \in 1..Len(sugInFlight), o \in SuggestionOutcomes :
               SuggestionDone(i, o))
              => (Visible("error")' => Visible("error"))]_vars

\* C9, its case: a geocoding request has just failed while a panel other than
\* the error panel was shown.
C9_Witness ==
    /\ lastEvent = "sugFail"
    /\ dropHidden
    /\ OnlyVisible("weather")

\* C4: a burst of input events with queries of trimmed length >= 2, each
\* arriving while the previous one's timer is pending (as every event less
\* than 300 ms after the previous one does), leaves exactly one timer pending,
\* for the last event's query; when it runs, fetchSuggestions is invoked once,
\* with that query; and it does run unless another input event arrives.
C4_DebounceOnce ==
    /\ [](/\ Cardinality(timers) <= 1
          /\ burst.n >= 1 =>
                 IF timers = {} THEN burst.fetches = 1
                 ELSE /\ burst.fetches = 0
                      /\ \A t \in timers : t.query = burst.query)
    /\ [][(InputEvent(cityInput') /\ Len(Trim(cityInput')) >= MinQueryLen)
              => /\ timers' = {[id |-> searchTimeout', query |-> Trim(cityInput'),
                                remaining |-> DebounceDelay]}
                 /\ sugInFlight' = sugInFlight]_vars
    /\ [][\A t \in timers :
              TimerFire(t)
                  => /\ timers' = {}
                     /\ t.remaining = 0
                     /\ sugInFlight' =
                            Append(sugInFlight, SuggestionRequest(burst.query))]_vars
    /\ (burst.n >= 1 /\ burst.fetches = 0 /\ lastEvent = "other")
           ~> (burst.fetches = 1
               \/ lastEvent \in {"input", "shortInput", "shortCancel"})

\* C4, its case: a burst of at least two input events has ended with one
\* fetchSuggestions call, whose request carries the last event's query.
C4_Witness ==
    /\ burst.n >= 2
    /\ burst.fetches = 1
    /\ timers = {}
    /\ Len(sugInFlight) > 0
    /\ sugInFlight[Len(sugInFlight)].query = burst.query

\* C3: activating retry issues exactly one weather request, with the target of
\* the most recent city search or coordinate search.
C3_RetryReplaysLastSearch ==
    [][(handleRetry /\ lastTarget.kind # "none")
           => wxInFlight' = Append(wxInFlight, lastTarget)]_vars

\* C6: the completion of a weather request with a non-success HTTP status
\* leaves the error panel alone visible, with the message the table gives for
\* the status, whatever the message was before.
C6_StatusMessageTable ==
    [][\A i \in 1..Len(wxInFlight), o \in {HttpStatus(s) : s \in Statuses \ {200}},
          m \in TypeErrorMessages :
           (~ResponseOk(o.status) /\ WeatherDone(i, o, m))
               => /\ OnlyVisible("error")'
                  /\ errorMessage' =
                         CASE o.status = 401 ->
                                  "API key is invalid. Please check your configuration."
                           [] o.status = 404 ->
                                  "City not found. Please check the spelling and try again."
                           [] o.status = 429 ->
                                  "Too many requests. Please wait a moment and try again."
                           [] o.status \in {500, 502, 503} ->
                                  "Weather service is temporarily unavailable. Please try again later."
                           [] OTHER ->
                                  "Unable to fetch weather data. Please check your internet connection and try again."]_vars

\* C6, its case: a request answered with 500, 502 or 503 after a snapshot was
\* rendered: the error panel alone is visible, with the message of the table.
C6_Witness ==
    /\ OnlyVisible("error")
    /\ errorMessage = MsgUnavailable
    /\ display # BlankDisplay
    /\ wxInFlight = <<>>

\* C7: the completion of a weather request by a rejection, or with a success
\* status and a payload that lacks nearest_area[0] or current_condition[0],
\* shows the error panel with the default message.
C7_DefaultMessageOnFailure ==
    [][\A i \in 1..Len(wxInFlight), o \in WeatherOutcomes, m \in TypeErrorMessages :
           (/\ \/ o.type = "reject"
               \/ o.type = "http" /\ ResponseOk(o.status) /\ o.body \in MalformedPayloads
            /\ WeatherDone(i, o, m))
               => /\ OnlyVisible("error")'
                  /\ errorMessage' = MsgDefault]_vars

\* C8: toggling the unit while the weather panel is visible issues exactly one
\* weather request, for the city of the displayed snapshot.
C8_ToggleRefetchesShownCity ==
    [][(toggleTemperatureUnit /\ OnlyVisible("weather"))
           => wxInFlight' = Append(wxInFlight, [kind |-> "city", path |-> shownPath])]_vars

\* C10: a search with a query that is empty after trimming, longer than 100
\* characters or outside the allowed characters issues no weather request and
\* leaves the remembered city as it was.
C10_UnacceptableQueryBlocked ==
    [][(SearchStep /\ ~isValidCityName(cityInput))
           => (wxInFlight' = wxInFlight /\ currentCity' = currentCity)]_vars

(***************************************************************************)
(* The validators over bounded texts                                       *)
(***************************************************************************)
\* longest text typed, apart from the over-long name
MaxTextLen == 3

\* a letter, the blank, an allowed sign, a digit and two disallowed symbols
TextAlphabet == {"a", " ", "-", "1", "!", NonAscii}

\* every text of at most MaxTextLen characters of TextAlphabet, and two names
\* of more than MaxCityLen letters, one padded with blanks
BoundedTexts ==
    UNION {[1..n -> TextAlphabet] : n \in 0..MaxTextLen}
        \cup {LongName, <<" ">> \o LongName \o <<" ">>}

\* the input listener alone, over the bounded texts
NextValid == \E v \in BoundedTexts : InputEvent(v)

SpecValid == Init /\ [][NextValid]_vars

\* C11: after an input event with value S, when every character of S is a
\* letter, whitespace, hyphen, comma, period or apostrophe and one of them is
\* not whitespace, validateInput finds S valid, and utils.isValidCityName
\* returns true exactly when the trimmed S has at most 100 characters; when S
\* contains a digit or a disallowed symbol, both find it invalid.
C11_ValidatorsFollowPattern ==
    lastEvent # "init" =>
        LET S == cityInput
            inClass == \A i \in 1..Len(S) :
                           S[i] \in Letters \cup Whitespace \cup {"-", ",", ".", "'"}
            nonBlank == \E i \in 1..Len(S) : S[i] \notin Whitespace
            hasBad == \E i \in 1..Len(S) : S[i] \in Digits \cup {"!", NonAscii}
        IN  /\ (inClass /\ nonBlank) =>
                   /\ ~searchBtnDisabled
                   /\ isValidCityName(S) <=> (Len(Trim(S)) <= 100)
            /\ hasBad => (searchBtnDisabled /\ ~isValidCityName(S))

\* C11, its case: the over-long name padded with blanks was typed; the search
\* button is enabled and utils.isValidCityName rejects the text.
C11_Witness ==
    /\ lastEvent = "input"
    /\ Len(cityInput) > MaxCityLen + 1
    /\ ~searchBtnDisabled
    /\ ~isValidCityName(cityInput)

\* C11 as stated: every text of the allowed characters that is non-empty after
\* trimming is valid for validateInput and for utils.isValidCityName, and
\* every text with a digit or a disallowed symbol is invalid for both.
C11_AsStated ==
    lastEvent # "init" =>
        LET S == cityInput
            inClass == \A i \in 1..Len(S) :
                           S[i] \in Letters \cup Whitespace \cup {"-", ",", ".", "'"}
            nonBlank == \E i \in 1..Len(S) : S[i] \notin Whitespace
            hasBad == \E i \in 1..Len(S) : S[i] \in Digits \cup {"!", NonAscii}
        IN  /\ (inClass /\ nonBlank) => (~searchBtnDisabled /\ isValidCityName(S))
            /\ hasBad => (searchBtnDisabled /\ ~isValidCityName(S))

\* C12: whenever the weather panel is visible, the temperature, the feels-like
\* value and the wind speed displayed are the fields of the response rendered
\* last that belong to the current unit preference, with that unit's symbols.
C12_DisplayFollowsUnit ==
    Visible("weather") =>
        /\ Len(weatherData) = 1
        /\ LET cur == weatherData[1].current
           IN  IF currentUnit = "metric"
               THEN /\ display.temperature = cur.temp_C
                    /\ display.temperatureUnit = <<"deg", "C">>
                    /\ display.feelsLike = cur.FeelsLikeC \o <<"deg", "C">>
                    /\ display.windSpeed = cur.windspeedKmph \o <<" ", "km/h">>
               ELSE /\ display.temperature = cur.temp_F
                    /\ display.temperatureUnit = <<"deg", "F">>
                    /\ display.feelsLike = cur.FeelsLikeF \o <<"deg", "F">>
                    /\ display.windSpeed = cur.windspeedMiles \o <<" ", "mph">>

\* C12, its case: the unit was toggled to imperial while a request was in
\* flight and a response was rendered after it, another request still pending.
C12_Witness ==
    /\ OnlyVisible("weather")
    /\ currentUnit = "imperial"
    /\ display.temperature = <<"6", "8">>
    /\ display.windSpeed = <<"6", " ", "mph">>
    /\ Len(wxInFlight) > 0

\* The weather side with the scheduling the network guarantees once every
\* request completes: a request in flight is eventually answered.
LoadingOutcomes == {HttpOk(Payload1), HttpStatus(404), Rejected("Failed to fetch")}

NextLoading == NextWeather({<<"a">>, <<"1">>}, LoadingOutcomes, MaxWxRace)

SpecLoading ==
    /\ Init
    /\ [][NextLoading]_vars
    /\ WF_vars(\E i \in 1..Len(wxInFlight), o \in LoadingOutcomes,
                  m \in TypeErrorMessages : WeatherDone(i, o, m))

\* C13: a step that sends a weather request leaves the loading panel alone
\* visible; while no weather request is in flight the loading panel is not
\* visible; and, every request being answered, a visible loading panel is
\* followed by the weather panel or the error panel.
C13_LoadingEnds ==
    /\ [][Len(wxInFlight') > Len(wxInFlight) => OnlyVisible("loading")']_vars
    /\ [](wxInFlight = <<>> => ~Visible("loading"))
    /\ Visible("loading") ~> (Visible("weather") \/ Visible("error"))

\* C13, its case: a coordinate search was started and its request rejected;
\* the error panel replaced the loading panel and nothing is in flight.
C13_Witness ==
    /\ lastTarget.kind = "coords"
    /\ wxInFlight = <<>>
    /\ OnlyVisible("error")
    /\ errorMessage = "Failed to fetch"

\* geocoding requests in flight at once in the suggestion race
MaxSugRace == 2

\* a geocoding response whose one result is named as the query it answers
EchoOutcome(request) ==
    [type |-> "http", status |-> 200, results |-> <<request.query>>]

\* The suggestion side with two queries, every request answered with a result
\* that names its query, so that the dropdown tells which request filled it.
NextSugRace ==
    \/ \E v \in {<<"a">>, NameAB, NameCD} : InputEvent(v)
    \/ Tick
    \/ \E t \in timers : TimerFire(t) /\ WithinCaps(MaxSugRace, 0)
    \/ \E i \in 1..Len(sugInFlight) : SuggestionDone(i, EchoOutcome(sugInFlight[i]))
    \/ EscapeKey
    \/ OutsideClick

SpecSugRace == Init /\ [][NextSugRace]_vars

\* C14: the response to a geocoding request, when it carries results, fills
\* the dropdown with them and shows it, whether or not a request sent later is
\* still in flight or was answered before.
C14_AnyResponseOverwrites ==
    [][\A i \in 1..Len(sugInFlight) :
           SuggestionDone(i, EchoOutcome(sugInFlight[i]))
               => (dropItems' = <<sugInFlight[i].query>> /\ ~dropHidden')]_vars

\* C14, its case: the requests for "ab" and then for "cd" were in flight
\* together; the one for "cd", the query typed last, was answered first and
\* the one for "ab" after it: the dropdown shows the suggestions for "ab".
C14_Witness ==
    /\ cityInput = NameCD
    /\ burst.query = NameCD
    /\ burst.fetches = 1
    /\ timers = {}
    /\ sugInFlight = <<>>
    /\ ~dropHidden
    /\ dropItems = <<NameAB>>

\* The keyboard on the query field and the dropdown: typing, the arrow keys,
\* Escape, Enter, clicks on an item or outside, and the searches they start.
NextKeys ==
    \/ \E v \in {<<" ", "1">>, NameAB} : InputEvent(v)
    \/ Tick
    \/ \E t \in timers : TimerFire(t) /\ WithinCaps(MaxSugInFlight, MaxWxInFlight)
    \/ \E i \in 1..Len(sugInFlight), o \in SuggestionOutcomes : SuggestionDone(i, o)
    \/ \E key \in {"ArrowDown", "ArrowUp"} : ArrowKey(key)
    \/ EscapeKey
    \/ EnterKey /\ WithinCaps(MaxSugInFlight, MaxWxInFlight)
    \/ \E k \in 1..Len(dropItems) :
           ClickSuggestion(k) /\ WithinCaps(MaxSugInFlight, MaxWxInFlight)
    \/ OutsideClick
    \/ \E i \in 1..Len(wxInFlight), m \in TypeErrorMessages :
           WeatherDone(i, HttpStatus(404), m)

SpecKeys == Init /\ [][NextKeys]_vars

\* C15: at most one suggestion item is highlighted, and it is an item of the
\* list; over a list of n >= 1 items ArrowDown moves the highlight one item
\* down, to the first item when there is none, and leaves it on the last item;
\* ArrowUp moves it one item up, to the first item when there is none, and
\* leaves it on the first item.
C15_SingleClampedHighlight ==
    /\ [](/\ Cardinality(activeItems) <= 1
          /\ \A i \in activeItems : i >= 0 /\ i <= Len(dropItems) - 1)
    /\ [][(ArrowKey("ArrowDown") /\ Len(dropItems) >= 1)
              => \/ activeItems = {} /\ activeItems' = {0}
                 \/ \E k \in 0..(Len(dropItems) - 2) :
                        activeItems = {k} /\ activeItems' = {k + 1}
                 \/ /\ activeItems = {Len(dropItems) - 1}
                    /\ activeItems' = {Len(dropItems) - 1}]_vars
    /\ [][(ArrowKey("ArrowUp") /\ Len(dropItems) >= 1)
              => \/ activeItems = {} /\ activeItems' = {0}
                 \/ \E k \in 1..(Len(dropItems) - 1) :
                        activeItems = {k} /\ activeItems' = {k - 1}
                 \/ activeItems = {0} /\ activeItems' = {0}]_vars

\* C15, its case: over a list of two items the highlight was moved to the last
\* item.
C15_Witness ==
    /\ Len(dropItems) = 2
    /\ ~dropHidden
    /\ activeItems = {1}

\* C16: while the dropdown is hidden, ArrowDown, ArrowUp and Enter leave the
\* highlight as it is and put no suggestion item's name in the query field.
C16_KeysIgnoredWhileHidden ==
    [][(dropHidden /\ (ArrowKey("ArrowDown") \/ ArrowKey("ArrowUp") \/ EnterKey))
           => (activeItems' = activeItems /\ cityInput' = cityInput)]_vars

\* C17: in the state that follows an Escape key event the dropdown is hidden
\* and no suggestion item is highlighted.
C17_EscapeClosesAndClears ==
    [][EscapeKey => (dropHidden' /\ activeItems' = {})]_vars

\* C18: once no weather request is in flight, a visible weather panel shows
\* the response to the request for the remembered current city, the one sent
\* last.
C18_LastRequestWins ==
    (wxInFlight = <<>> /\ Visible("weather"))
        => shownPath = encodeURIComponent(currentCity)

\* C19: while a weather request is in flight the loading panel alone is
\* visible.
C19_LoadingWhileInFlight == wxInFlight # <<>> => OnlyVisible("loading")

C21_WelcomeOnlyInitially ==
    /\ [](lastEvent = "init" => OnlyVisible("welcome"))
    /\ [](Visible("welcome") => OnlyVisible("welcome"))
    /\ [][~Visible("welcome") => ~Visible("welcome")']_vars

\* C21, its case: the welcome panel gave way to the loading panel of a city
\* search, then to the error panel of a rejected query, the request pending.
C21_Witness ==
    /\ ~Visible("welcome")
    /\ OnlyVisible("error")
    /\ errorMessage = MsgInvalidCity
    /\ lastTarget.kind = "city"
    /\ Len(wxInFlight) > 0

====
